---- MODULE Spec2Model ----
(***************************************************************************)
(* Object retention and bucket default-encryption operations of the        *)
(* openstor Go client: PutObjectRetention, GetObjectRetention,             *)
(* SetBucketEncryption, RemoveBucketEncryption, GetBucketEncryption.       *)
(*                                                                         *)
(* One client call is modelled at a time.  A call validates its inputs,    *)
(* builds a requestMetadata and hands it to executeMethod (pc "inflight"), *)
(* the transport answers (pc "responded"), and the rest of the operation   *)
(* turns the answer into the return values (pc "done").                    *)
(*                                                                         *)
(* Go pointers are sequences of length at most one: <<>> is nil and <<v>>  *)
(* points to v.  Encoded XML is a sequence of tokens.                      *)
(***************************************************************************)
EXTENDS Integers, Sequences, FiniteSets, TLC

VARIABLES pc, op, args, req, calls, outcome, result

vars == <<pc, op, args, req, calls, outcome, result>>

----------------------------------------------------------------------------
(* Bounds of the inputs. *)

\* Caller-supplied version ids are "", "v1" .. "v<MaxVersion>".
MaxVersion == 2

\* Caller-supplied non-zero instants are 1 .. MaxInstant (time 0 is Go's zero time).
MaxInstant == 2

----------------------------------------------------------------------------
(* Program constants. *)

StatusOK == 200

StatusNoContent == 204

MethodPut == "PUT"

MethodGet == "GET"

MethodDelete == "DELETE"

amzBypassGovernance == "X-Amz-Bypass-Governance-Retention"

Governance == "GOVERNANCE"

Compliance == "COMPLIANCE"

Nil == <<>>

Ptr(v) == <<v>>

NoError == [kind |-> "nil"]

NoReq == [method |-> "none"]

NoOutcome == [err |-> NoError, resp |-> Nil]

NoResult == [err |-> NoError, mode |-> Nil, retainUntilDate |-> Nil, config |-> Nil]

----------------------------------------------------------------------------
(* Inputs the caller can supply. *)

BucketNames == {"", "bucket"}

ObjectNames == {"", "object"}

VersionIDs == {""} \cup {"v" \o ToString(i) : i \in 1..MaxVersion}

\* *RetentionMode: nil, or a pointer to any string.
ModeValues == {Governance, Compliance, "INVALID", ""}

ModeInputs == {Nil} \cup {Ptr(m) : m \in ModeValues}

\* time.Time values: 0 is the zero time, the others are UTC instants.
Times == 0..MaxInstant

DateInputs == {Nil} \cup {Ptr(t) : t \in Times}

Rule(alg, key) == [SSEAlgorithm |-> alg, KmsMasterKeyID |-> key]

Configurations ==
    { [Rules |-> <<>>],
      [Rules |-> <<Rule("AES256", "")>>],
      [Rules |-> <<Rule("aws:kms", "key-1")>>] }

ConfigInputs == {Nil} \cup {Ptr(c) : c \in Configurations}

PutObjectRetentionOptionsSet ==
    [GovernanceBypass : BOOLEAN, Mode : ModeInputs,
     RetainUntilDate : DateInputs, VersionID : VersionIDs]

NoArgs ==
    [bucketName |-> "", objectName |-> "", versionID |-> "", Mode |-> Nil,
     RetainUntilDate |-> Nil, GovernanceBypass |-> FALSE, config |-> Nil]

----------------------------------------------------------------------------
(* Collaborators outside the modelled files. *)

\* s3utils.CheckValidBucketName: pass or a name error.
CheckValidBucketName(bucketName) ==
    IF bucketName = "" THEN [kind |-> "NameError", what |-> "bucket"] ELSE NoError

\* s3utils.CheckValidObjectName: pass or a name error.
CheckValidObjectName(objectName) ==
    IF objectName = "" THEN [kind |-> "NameError", what |-> "object"] ELSE NoError

\* RetentionMode.IsValid
IsValid(mode) == mode \in {Governance, Compliance}

errInvalidArgument(message) == [kind |-> "InvalidArgument", message |-> message]

Digest(alg, data) == <<alg, data>>

sumMD5Base64(data) == Digest("md5", data)

sum256Hex(data) == Digest("sha256", data)

emptySHA256Hex == Digest("sha256", <<>>)

\* A digest field of requestMetadata left unset.
NoDigest == <<>>

\* The panic of reading a field of a nil *http.Response.
NilDereference == [kind |-> "panic"]

----------------------------------------------------------------------------
(* XML tokens. *)

Open(n) == [k |-> "open", n |-> n]

Close(n) == [k |-> "close", n |-> n]

Text(v) == [k |-> "text", v |-> v]

Element(n, v) == <<Open(n), Text(v), Close(n)>>

\* time.Time.MarshalText (RFC 3339, UTC).
FormatTime(t) ==
    IF t = 0 THEN "0001-01-01T00:00:00Z"
    ELSE "20" \o ToString(29 + t) \o "-01-01T00:00:00Z"

\* The times whose text the decoder can meet in this model.
ParsableTimes == 0..(MaxInstant + 1)

\* time.Time.UnmarshalText: the time, or an error for text that is no RFC 3339 time.
ParseTime(s) ==
    IF \E t \in ParsableTimes : FormatTime(t) = s
    THEN [err |-> NoError, val |-> CHOOSE t \in ParsableTimes : FormatTime(t) = s]
    ELSE [err |-> [kind |-> "DecodeError", what |-> "time"], val |-> 0]

----------------------------------------------------------------------------
(* objectRetention and its XML form. *)

EmptyObjectRetention == [XMLNS |-> "", Mode |-> "", RetainUntilDate |-> Nil]

\* A faulty variant: the mode is stored without the IsValid check.
newObjectRetentionUnchecked(mode, date) ==
    LET withDate == IF date # Nil /\ date[1] # 0
                    THEN [EmptyObjectRetention EXCEPT !.RetainUntilDate = date]
                    ELSE EmptyObjectRetention
    IN  IF mode # Nil
        THEN [err |-> NoError, val |-> Ptr([withDate EXCEPT !.Mode = mode[1]])]
        ELSE [err |-> NoError, val |-> Ptr(withDate)]

newObjectRetention(mode, date) ==
    LET withDate == IF date # Nil /\ date[1] # 0
                    THEN [EmptyObjectRetention EXCEPT !.RetainUntilDate = date]
                    ELSE EmptyObjectRetention
    IN  IF mode # Nil
        THEN IF ~IsValid(mode[1])
             THEN [err |-> [kind |-> "InvalidRetentionMode", mode |-> mode[1]],
                   val |-> Nil]
             ELSE [err |-> NoError, val |-> Ptr([withDate EXCEPT !.Mode = mode[1]])]
        ELSE [err |-> NoError, val |-> Ptr(withDate)]

\* xml.Marshal of an objectRetention, by its struct tags: omitempty leaves out an
\* empty Mode and a nil RetainUntilDate (and the empty xmlns attribute).
MarshalRetention(r) ==
    <<Open("Retention")>>
    \o (IF r.Mode # "" THEN Element("Mode", r.Mode) ELSE <<>>)
    \o (IF r.RetainUntilDate # Nil
        THEN Element("RetainUntilDate", FormatTime(r.RetainUntilDate[1]))
        ELSE <<>>)
    \o <<Close("Retention")>>

DecodeErr(what) == [kind |-> "DecodeError", what |-> what]

\* The index after the element opened at toks[i], or 0 when the input ends first.
RECURSIVE SkipElement(_, _, _)
SkipElement(toks, i, depth) ==
    IF i > Len(toks) THEN 0
    ELSE IF toks[i].k = "open" THEN SkipElement(toks, i + 1, depth + 1)
    ELSE IF toks[i].k = "close"
         THEN IF depth = 1 THEN i + 1 ELSE SkipElement(toks, i + 1, depth - 1)
    ELSE SkipElement(toks, i + 1, depth)

\* The character data directly inside the element opened at toks[i].
ElementText(toks, i) ==
    IF i + 1 <= Len(toks) /\ toks[i + 1].k = "text" THEN toks[i + 1].v ELSE ""

\* The children of <Retention>, from toks[i] on, into acc.
RECURSIVE DecodeFields(_, _, _)
DecodeFields(toks, i, acc) ==
    IF i > Len(toks) THEN [err |-> DecodeErr("EOF"), val |-> acc]
    ELSE IF toks[i].k = "close" THEN [err |-> NoError, val |-> acc]
    ELSE IF toks[i].k = "text" THEN DecodeFields(toks, i + 1, acc)
    ELSE LET next == SkipElement(toks, i + 1, 1)
             text == ElementText(toks, i)
         IN  IF next = 0 THEN [err |-> DecodeErr("EOF"), val |-> acc]
             ELSE IF toks[i].n = "Mode"
                  THEN DecodeFields(toks, next, [acc EXCEPT !.Mode = text])
             ELSE IF toks[i].n = "RetainUntilDate"
                  THEN LET t == ParseTime(text)
                       IN  IF t.err # NoError THEN [err |-> t.err, val |-> acc]
                           ELSE DecodeFields(toks, next,
                                    [acc EXCEPT !.RetainUntilDate = Ptr(t.val)])
             ELSE DecodeFields(toks, next, acc)

\* xml.NewDecoder(body).Decode(&objectRetention{}), by the struct tags.
DecodeRetention(body) ==
    IF body = <<>> THEN [err |-> DecodeErr("EOF"), val |-> EmptyObjectRetention]
    ELSE IF body[1].k # "open"
         THEN [err |-> DecodeErr("syntax"), val |-> EmptyObjectRetention]
    ELSE IF body[1].n # "Retention"
         THEN [err |-> DecodeErr("root"), val |-> EmptyObjectRetention]
    ELSE DecodeFields(body, 2, EmptyObjectRetention)

----------------------------------------------------------------------------
(* sse.Configuration and its XML form. *)

RECURSIVE MarshalRules(_)
MarshalRules(rules) ==
    IF rules = <<>> THEN <<>>
    ELSE LET r == Head(rules)
         IN  <<Open("Rule"), Open("ApplyServerSideEncryptionByDefault")>>
             \o (IF r.KmsMasterKeyID # "" THEN Element("KMSMasterKeyID", r.KmsMasterKeyID)
                 ELSE <<>>)
             \o Element("SSEAlgorithm", r.SSEAlgorithm)
             \o <<Close("ApplyServerSideEncryptionByDefault"), Close("Rule")>>
             \o MarshalRules(Tail(rules))

\* xml.Marshal of an sse.Configuration.
MarshalConfiguration(config) ==
    <<Open("ServerSideEncryptionConfiguration")>>
    \o MarshalRules(config.Rules)
    \o <<Close("ServerSideEncryptionConfiguration")>>

\* xml.Marshal(config) of a *sse.Configuration: a nil pointer marshals to no bytes.
MarshalConfigurationPtr(config) ==
    IF config = Nil THEN <<>> ELSE MarshalConfiguration(config[1])

\* xmlDecoder(body, &sse.Configuration{}): the configuration the document encodes,
\* or a decode error.
xmlDecoder(body) ==
    IF \E c \in Configurations : MarshalConfiguration(c) = body
    THEN [err |-> NoError,
          val |-> CHOOSE c \in Configurations : MarshalConfiguration(c) = body]
    ELSE [err |-> DecodeErr("document"), val |-> [Rules |-> <<>>]]

----------------------------------------------------------------------------
(* The transport's answers. *)

ErrorDocument(code) == <<Open("Error")>> \o Element("Code", code) \o <<Close("Error")>>

\* The error code an error document carries ("" when the body is none).
ErrorCode(body) ==
    IF Len(body) = 5 /\ body[1] = Open("Error") /\ body[2] = Open("Code")
       /\ body[3].k = "text"
    THEN body[3].v ELSE ""

\* httpRespToErrorResponse: the service error for a response, with the resource names.
httpRespToErrorResponse(resp, bucketName, objectName) ==
    [kind |-> "ErrorResponse",
     StatusCode |-> IF resp = Nil THEN 0 ELSE resp[1].StatusCode,
     Code |-> IF resp = Nil THEN "" ELSE ErrorCode(resp[1].Body),
     BucketName |-> bucketName,
     Key |-> objectName]

StatusCodes == {StatusOK, StatusNoContent, 404, 500}

TransportErrors == {[kind |-> "TransportError"], [kind |-> "Canceled"]}

\* Retention documents a store can answer with: every encodable configuration, a
\* document with an unknown field, and malformed ones.
RetentionBodies ==
    { MarshalRetention([XMLNS |-> "", Mode |-> m, RetainUntilDate |-> d]) :
        m \in {"", Governance, Compliance}, d \in {Nil} \cup {Ptr(t) : t \in 1..MaxInstant} }
    \cup { <<Open("Retention")>> \o Element("Mode", Governance)
             \o Element("Extra", "x") \o <<Close("Retention")>>,
           <<Open("Retention")>> \o Element("RetainUntilDate", "not-a-date")
             \o <<Close("Retention")>>,
           <<Open("Retention")>> \o Element("Mode", Governance),
           <<Open("LegalHold"), Close("LegalHold")>>,
           <<>> }

EncryptionBodies ==
    { MarshalConfiguration(c) : c \in Configurations }
    \cup { <<Open("ServerSideEncryptionConfiguration"), Open("Rule")>>, <<>> }

ErrorBodies ==
    { ErrorDocument("NoSuchObjectLockConfiguration"),
      ErrorDocument("ServerSideEncryptionConfigurationNotFoundError"),
      <<>> }

BodiesFor(operation) ==
    IF operation = "GetObjectRetention" THEN RetentionBodies \cup ErrorBodies
    ELSE IF operation = "GetBucketEncryption" THEN EncryptionBodies \cup ErrorBodies
    ELSE ErrorBodies

\* What executeMethod can return for a request: an error and no response, or a
\* response and no error.
TransportOutcomes(operation) ==
    { [err |-> e, resp |-> Nil] : e \in TransportErrors }
    \cup { [err |-> NoError, resp |-> Ptr([StatusCode |-> s, Body |-> b])] :
             s \in StatusCodes, b \in BodiesFor(operation) }

----------------------------------------------------------------------------
(* PutObjectRetention *)

\* A faulty variant: the flag is always written to the header, as "true" or "false".
PutObjectRetentionHeadersAlways(opts) ==
    IF opts.GovernanceBypass THEN {<<amzBypassGovernance, "true">>}
    ELSE {<<amzBypassGovernance, "false">>}

\* A faulty variant: the header is dropped when the requested mode is COMPLIANCE.
PutObjectRetentionHeadersByMode(opts) ==
    IF opts.GovernanceBypass /\ opts.Mode # Ptr(Compliance)
    THEN {<<amzBypassGovernance, "true">>} ELSE {}

\* A faulty variant: only 200 counts as success.
PutObjectRetentionStatusOKOnly200(status) == status = StatusOK

PutObjectRetentionQuery(opts) ==
    {<<"retention", "">>}
    \cup (IF opts.VersionID # "" THEN {<<"versionId", opts.VersionID>>} ELSE {})

PutObjectRetentionHeaders(opts) ==
    IF opts.GovernanceBypass THEN {<<amzBypassGovernance, "true">>} ELSE {}

\* Validation, encoding and the requestMetadata: an error, or the request.
PutObjectRetentionRequest(bucketName, objectName, opts) ==
    LET retention == newObjectRetention(opts.Mode, opts.RetainUntilDate)
    IN  IF CheckValidBucketName(bucketName) # NoError
        THEN [err |-> CheckValidBucketName(bucketName), req |-> NoReq]
        ELSE IF CheckValidObjectName(objectName) # NoError
        THEN [err |-> CheckValidObjectName(objectName), req |-> NoReq]
        ELSE IF retention.err # NoError
        THEN [err |-> retention.err, req |-> NoReq]
        ELSE LET retentionData == MarshalRetention(retention.val[1])
             IN  [err |-> NoError,
                  req |-> [method |-> MethodPut,
                           bucketName |-> bucketName,
                           objectName |-> objectName,
                           queryValues |-> PutObjectRetentionQuery(opts),
                           contentBody |-> Ptr(retentionData),
                           contentLength |-> Len(retentionData),
                           contentMD5Base64 |-> sumMD5Base64(retentionData),
                           contentSHA256Hex |-> sum256Hex(retentionData),
                           customHeader |-> PutObjectRetentionHeaders(opts)]]

\* The status check on the transport's answer.
PutObjectRetentionStatusOK(status) == status = StatusOK \/ status = StatusNoContent

\* A faulty variant: a transport error is reported as a service error.
PutObjectRetentionResultWrapsError(o, bucketName, objectName) ==
    IF o.err # NoError \/ (o.resp # Nil /\ ~PutObjectRetentionStatusOK(o.resp[1].StatusCode))
    THEN [NoResult EXCEPT !.err = httpRespToErrorResponse(o.resp, bucketName, objectName)]
    ELSE NoResult

PutObjectRetentionResult(o, bucketName, objectName) ==
    IF o.err # NoError THEN [NoResult EXCEPT !.err = o.err]
    ELSE IF o.resp # Nil /\ ~PutObjectRetentionStatusOK(o.resp[1].StatusCode)
    THEN [NoResult EXCEPT !.err = httpRespToErrorResponse(o.resp, bucketName, objectName)]
    ELSE NoResult

\* The call up to executeMethod.
PutObjectRetention ==
    /\ pc \in {"idle", "done"}
    /\ \E bucketName \in BucketNames, objectName \in ObjectNames,
          opts \in PutObjectRetentionOptionsSet :
         LET b == PutObjectRetentionRequest(bucketName, objectName, opts)
         IN  /\ op' = "PutObjectRetention"
             /\ args' = [NoArgs EXCEPT !.bucketName = bucketName,
                                       !.objectName = objectName,
                                       !.versionID = opts.VersionID,
                                       !.Mode = opts.Mode,
                                       !.RetainUntilDate = opts.RetainUntilDate,
                                       !.GovernanceBypass = opts.GovernanceBypass]
             /\ req' = b.req
             /\ outcome' = NoOutcome
             /\ IF b.err # NoError
                THEN /\ pc' = "done"
                     /\ calls' = 0
                     /\ result' = [NoResult EXCEPT !.err = b.err]
                ELSE /\ pc' = "inflight"
                     /\ calls' = 1
                     /\ result' = NoResult

\* The call from executeMethod's return on.
PutObjectRetentionReturn ==
    /\ pc = "responded"
    /\ op = "PutObjectRetention"
    /\ result' = PutObjectRetentionResult(outcome, args.bucketName, args.objectName)
    /\ pc' = "done"
    /\ UNCHANGED <<op, args, req, calls, outcome>>

----------------------------------------------------------------------------
(* GetObjectRetention *)

\* A faulty variant: versionId is set whether or not a version id was supplied.
GetObjectRetentionQueryAlways(versionID) ==
    {<<"retention", "">>, <<"versionId", versionID>>}

GetObjectRetentionQuery(versionID) ==
    {<<"retention", "">>}
    \cup (IF versionID # "" THEN {<<"versionId", versionID>>} ELSE {})

GetObjectRetentionRequest(bucketName, objectName, versionID) ==
    IF CheckValidBucketName(bucketName) # NoError
    THEN [err |-> CheckValidBucketName(bucketName), req |-> NoReq]
    ELSE IF CheckValidObjectName(objectName) # NoError
    THEN [err |-> CheckValidObjectName(objectName), req |-> NoReq]
    ELSE [err |-> NoError,
          req |-> [method |-> MethodGet,
                   bucketName |-> bucketName,
                   objectName |-> objectName,
                   queryValues |-> GetObjectRetentionQuery(versionID),
                   contentBody |-> Nil,
                   contentLength |-> 0,
                   contentMD5Base64 |-> NoDigest,
                   contentSHA256Hex |-> emptySHA256Hex,
                   customHeader |-> {}]]

\* The return values for a decoded objectRetention: &retention.Mode and
\* retention.RetainUntilDate.
GetObjectRetentionValues(retention) ==
    [NoResult EXCEPT !.mode = Ptr(retention.Mode),
                     !.retainUntilDate = retention.RetainUntilDate]

GetObjectRetentionResult(o, bucketName, objectName) ==
    IF o.err # NoError THEN [NoResult EXCEPT !.err = o.err]
    ELSE IF o.resp # Nil /\ o.resp[1].StatusCode # StatusOK
    THEN [NoResult EXCEPT !.err = httpRespToErrorResponse(o.resp, bucketName, objectName)]
    ELSE IF o.resp = Nil THEN [NoResult EXCEPT !.err = NilDereference]
    ELSE LET d == DecodeRetention(o.resp[1].Body)
         IN  IF d.err # NoError THEN [NoResult EXCEPT !.err = d.err]
             ELSE GetObjectRetentionValues(d.val)

GetObjectRetention ==
    /\ pc \in {"idle", "done"}
    /\ \E bucketName \in BucketNames, objectName \in ObjectNames,
          versionID \in VersionIDs :
         LET b == GetObjectRetentionRequest(bucketName, objectName, versionID)
         IN  /\ op' = "GetObjectRetention"
             /\ args' = [NoArgs EXCEPT !.bucketName = bucketName,
                                       !.objectName = objectName,
                                       !.versionID = versionID]
             /\ req' = b.req
             /\ outcome' = NoOutcome
             /\ IF b.err # NoError
                THEN /\ pc' = "done"
                     /\ calls' = 0
                     /\ result' = [NoResult EXCEPT !.err = b.err]
                ELSE /\ pc' = "inflight"
                     /\ calls' = 1
                     /\ result' = NoResult

GetObjectRetentionReturn ==
    /\ pc = "responded"
    /\ op = "GetObjectRetention"
    /\ result' = GetObjectRetentionResult(outcome, args.bucketName, args.objectName)
    /\ pc' = "done"
    /\ UNCHANGED <<op, args, req, calls, outcome>>

----------------------------------------------------------------------------
(* SetBucketEncryption *)

EncryptionQuery == {<<"encryption", "">>}

\* A faulty variant: the nil check on the configuration is missing.
SetBucketEncryptionCheckNoNil(bucketName, config) ==
    CheckValidBucketName(bucketName)

\* A faulty variant: 204 counts as success too.
SetBucketEncryptionStatusOKWith204(status) ==
    status = StatusOK \/ status = StatusNoContent

\* The checks before anything is encoded: the bucket name, then the configuration.
SetBucketEncryptionCheck(bucketName, config) ==
    IF CheckValidBucketName(bucketName) # NoError THEN CheckValidBucketName(bucketName)
    ELSE IF config = Nil THEN errInvalidArgument("configuration cannot be empty")
    ELSE NoError

SetBucketEncryptionRequest(bucketName, config) ==
    IF SetBucketEncryptionCheck(bucketName, config) # NoError
    THEN [err |-> SetBucketEncryptionCheck(bucketName, config), req |-> NoReq]
    ELSE LET buf == MarshalConfigurationPtr(config)
         IN  [err |-> NoError,
              req |-> [method |-> MethodPut,
                       bucketName |-> bucketName,
                       objectName |-> "",
                       queryValues |-> EncryptionQuery,
                       contentBody |-> Ptr(buf),
                       contentLength |-> Len(buf),
                       contentMD5Base64 |-> sumMD5Base64(buf),
                       contentSHA256Hex |-> NoDigest,
                       customHeader |-> {}]]

SetBucketEncryptionStatusOK(status) == status = StatusOK

SetBucketEncryptionResult(o, bucketName) ==
    IF o.err # NoError THEN [NoResult EXCEPT !.err = o.err]
    ELSE IF o.resp = Nil THEN [NoResult EXCEPT !.err = NilDereference]
    ELSE IF ~SetBucketEncryptionStatusOK(o.resp[1].StatusCode)
    THEN [NoResult EXCEPT !.err = httpRespToErrorResponse(o.resp, bucketName, "")]
    ELSE NoResult

SetBucketEncryption ==
    /\ pc \in {"idle", "done"}
    /\ \E bucketName \in BucketNames, config \in ConfigInputs :
         LET b == SetBucketEncryptionRequest(bucketName, config)
         IN  /\ op' = "SetBucketEncryption"
             /\ args' = [NoArgs EXCEPT !.bucketName = bucketName, !.config = config]
             /\ req' = b.req
             /\ outcome' = NoOutcome
             /\ IF b.err # NoError
                THEN /\ pc' = "done"
                     /\ calls' = 0
                     /\ result' = [NoResult EXCEPT !.err = b.err]
                ELSE /\ pc' = "inflight"
                     /\ calls' = 1
                     /\ result' = NoResult

SetBucketEncryptionReturn ==
    /\ pc = "responded"
    /\ op = "SetBucketEncryption"
    /\ result' = SetBucketEncryptionResult(outcome, args.bucketName)
    /\ pc' = "done"
    /\ UNCHANGED <<op, args, req, calls, outcome>>

----------------------------------------------------------------------------
(* RemoveBucketEncryption *)

RemoveBucketEncryptionRequest(bucketName) ==
    IF CheckValidBucketName(bucketName) # NoError
    THEN [err |-> CheckValidBucketName(bucketName), req |-> NoReq]
    ELSE [err |-> NoError,
          req |-> [method |-> MethodDelete,
                   bucketName |-> bucketName,
                   objectName |-> "",
                   queryValues |-> EncryptionQuery,
                   contentBody |-> Nil,
                   contentLength |-> 0,
                   contentMD5Base64 |-> NoDigest,
                   contentSHA256Hex |-> emptySHA256Hex,
                   customHeader |-> {}]]

\* A faulty variant: only 200 counts as success.
RemoveBucketEncryptionStatusOKOnly200(status) == status = StatusOK

RemoveBucketEncryptionStatusOK(status) ==
    status = StatusOK \/ status = StatusNoContent

RemoveBucketEncryptionResult(o, bucketName) ==
    IF o.err # NoError THEN [NoResult EXCEPT !.err = o.err]
    ELSE IF o.resp = Nil THEN [NoResult EXCEPT !.err = NilDereference]
    ELSE IF ~RemoveBucketEncryptionStatusOK(o.resp[1].StatusCode)
    THEN [NoResult EXCEPT !.err = httpRespToErrorResponse(o.resp, bucketName, "")]
    ELSE NoResult

RemoveBucketEncryption ==
    /\ pc \in {"idle", "done"}
    /\ \E bucketName \in BucketNames :
         LET b == RemoveBucketEncryptionRequest(bucketName)
         IN  /\ op' = "RemoveBucketEncryption"
             /\ args' = [NoArgs EXCEPT !.bucketName = bucketName]
             /\ req' = b.req
             /\ outcome' = NoOutcome
             /\ IF b.err # NoError
                THEN /\ pc' = "done"
                     /\ calls' = 0
                     /\ result' = [NoResult EXCEPT !.err = b.err]
                ELSE /\ pc' = "inflight"
                     /\ calls' = 1
                     /\ result' = NoResult

RemoveBucketEncryptionReturn ==
    /\ pc = "responded"
    /\ op = "RemoveBucketEncryption"
    /\ result' = RemoveBucketEncryptionResult(outcome, args.bucketName)
    /\ pc' = "done"
    /\ UNCHANGED <<op, args, req, calls, outcome>>

----------------------------------------------------------------------------
(* GetBucketEncryption *)

GetBucketEncryptionRequest(bucketName) ==
    IF CheckValidBucketName(bucketName) # NoError
    THEN [err |-> CheckValidBucketName(bucketName), req |-> NoReq]
    ELSE [err |-> NoError,
          req |-> [method |-> MethodGet,
                   bucketName |-> bucketName,
                   objectName |-> "",
                   queryValues |-> EncryptionQuery,
                   contentBody |-> Nil,
                   contentLength |-> 0,
                   contentMD5Base64 |-> NoDigest,
                   contentSHA256Hex |-> NoDigest,
                   customHeader |-> {}]]

\* A faulty variant: a decode failure is swallowed and the empty configuration returned.
GetBucketEncryptionDecodeSwallow(body) ==
    [NoResult EXCEPT !.config = Ptr(xmlDecoder(body).val)]

\* The decoding of a 200 response's body into the return values.
GetBucketEncryptionDecode(body) ==
    LET d == xmlDecoder(body)
    IN  IF d.err # NoError THEN [NoResult EXCEPT !.err = d.err]
        ELSE [NoResult EXCEPT !.config = Ptr(d.val)]

GetBucketEncryptionResult(o, bucketName) ==
    IF o.err # NoError THEN [NoResult EXCEPT !.err = o.err]
    ELSE IF o.resp = Nil THEN [NoResult EXCEPT !.err = NilDereference]
    ELSE IF o.resp[1].StatusCode # StatusOK
    THEN [NoResult EXCEPT !.err = httpRespToErrorResponse(o.resp, bucketName, "")]
    ELSE GetBucketEncryptionDecode(o.resp[1].Body)

GetBucketEncryption ==
    /\ pc \in {"idle", "done"}
    /\ \E bucketName \in BucketNames :
         LET b == GetBucketEncryptionRequest(bucketName)
         IN  /\ op' = "GetBucketEncryption"
             /\ args' = [NoArgs EXCEPT !.bucketName = bucketName]
             /\ req' = b.req
             /\ outcome' = NoOutcome
             /\ IF b.err # NoError
                THEN /\ pc' = "done"
                     /\ calls' = 0
                     /\ result' = [NoResult EXCEPT !.err = b.err]
                ELSE /\ pc' = "inflight"
                     /\ calls' = 1
                     /\ result' = NoResult

GetBucketEncryptionReturn ==
    /\ pc = "responded"
    /\ op = "GetBucketEncryption"
    /\ result' = GetBucketEncryptionResult(outcome, args.bucketName)
    /\ pc' = "done"
    /\ UNCHANGED <<op, args, req, calls, outcome>>

----------------------------------------------------------------------------
(* The transport. *)

\* executeMethod returns to the operation in flight.
executeMethod ==
    /\ pc = "inflight"
    /\ \E o \in TransportOutcomes(op) : outcome' = o
    /\ pc' = "responded"
    /\ UNCHANGED <<op, args, req, calls, result>>

----------------------------------------------------------------------------

Init ==
    /\ pc = "idle"
    /\ op = ""
    /\ args = NoArgs
    /\ req = NoReq
    /\ calls = 0
    /\ outcome = NoOutcome
    /\ result = NoResult

Next ==
    \/ PutObjectRetention
    \/ PutObjectRetentionReturn
    \/ GetObjectRetention
    \/ GetObjectRetentionReturn
    \/ SetBucketEncryption
    \/ SetBucketEncryptionReturn
    \/ RemoveBucketEncryption
    \/ RemoveBucketEncryptionReturn
    \/ GetBucketEncryption
    \/ GetBucketEncryptionReturn
    \/ executeMethod

Spec == Init /\ [][Next]_vars

----------------------------------------------------------------------------
(* Properties. *)

RetentionOps == {"PutObjectRetention", "GetObjectRetention"}

EncryptionOps == {"SetBucketEncryption", "RemoveBucketEncryption", "GetBucketEncryption"}

\* The operation's request has been handed to the transport.
Sent == calls = 1 /\ req # NoReq

\* The transport answered with a response and no error.
Answered == pc = "done" /\ calls = 1 /\ outcome.err = NoError /\ outcome.resp # Nil

Status == outcome.resp[1].StatusCode

Body == outcome.resp[1].Body

HeaderValues(r, key) == {p[2] : p \in {q \in r.customHeader : q[1] = key}}

QueryValues(r, key) == {p[2] : p \in {q \in r.queryValues : q[1] = key}}

NoValues == result.mode = Nil /\ result.retainUntilDate = Nil /\ result.config = Nil

\* The service error built from the response with these resource names.
IsServiceError(e, bucketName, objectName) ==
    /\ e.kind = "ErrorResponse"
    /\ e.StatusCode = Status
    /\ e.BucketName = bucketName
    /\ e.Key = objectName

\* C1: a PutObjectRetention request that reaches the transport carries the
\* governance-bypass header exactly when opts.GovernanceBypass is true, with the
\* value "true"; with the flag false the header is absent (never "false").
C1_BypassHeaderIffFlag ==
    (op = "PutObjectRetention" /\ Sent) =>
        HeaderValues(req, amzBypassGovernance)
            = (IF args.GovernanceBypass THEN {"true"} ELSE {})

C1_Witness ==
    /\ op = "PutObjectRetention" /\ Sent
    /\ args.GovernanceBypass
    /\ args.Mode = Ptr(Governance)
    /\ <<amzBypassGovernance, "true">> \in req.customHeader

\* C2 as stated: no PutObjectRetention request whose requested mode is COMPLIANCE
\* carries the governance-bypass header.
C2_NoBypassForCompliance ==
    (op = "PutObjectRetention" /\ Sent /\ args.Mode = Ptr(Compliance)) =>
        HeaderValues(req, amzBypassGovernance) = {}

\* C2 as amended: a PutObjectRetention request whose requested mode is COMPLIANCE
\* carries the governance-bypass header exactly when the caller set
\* GovernanceBypass, whatever the date and version id; the mode never suppresses it.
C2_ComplianceBypassFollowsFlag ==
    (op = "PutObjectRetention" /\ Sent /\ args.Mode = Ptr(Compliance)) =>
        (HeaderValues(req, amzBypassGovernance) # {} <=> args.GovernanceBypass)

C2_Witness ==
    /\ op = "PutObjectRetention" /\ Sent
    /\ args.Mode = Ptr(Compliance)
    /\ args.GovernanceBypass
    /\ HeaderValues(req, amzBypassGovernance) = {"true"}

\* The call's inputs fail validation: an invalid bucket name, an invalid object
\* name, or a supplied mode that is neither GOVERNANCE nor COMPLIANCE.
ValidationFails ==
    \/ CheckValidBucketName(args.bucketName) # NoError
    \/ op \in RetentionOps /\ CheckValidObjectName(args.objectName) # NoError
    \/ op = "PutObjectRetention" /\ args.Mode # Nil
         /\ args.Mode[1] \notin {"GOVERNANCE", "COMPLIANCE"}

\* C3: every validation failure makes the operation return an error without any
\* transport invocation; PutObjectRetention with a non-nil invalid mode never
\* calls the transport, and with mode = nil and date = nil (and valid names) it
\* passes validation and calls the transport.
C3_ValidationBeforeTransport ==
    /\ (op # "" /\ ValidationFails) =>
          /\ pc = "done"
          /\ calls = 0
          /\ req = NoReq
          /\ result.err.kind \in {"NameError", "InvalidRetentionMode"}
          /\ NoValues
    /\ (op = "PutObjectRetention" /\ args.Mode # Nil /\ ~IsValid(args.Mode[1])) =>
          calls = 0
    /\ (op = "PutObjectRetention" /\ args.Mode = Nil /\ args.RetainUntilDate = Nil
          /\ CheckValidBucketName(args.bucketName) = NoError
          /\ CheckValidObjectName(args.objectName) = NoError) =>
          Sent

C3_Witness ==
    /\ op = "PutObjectRetention"
    /\ pc = "done"
    /\ args.bucketName = "bucket" /\ args.objectName = "object"
    /\ args.Mode = Ptr("INVALID")
    /\ calls = 0
    /\ result.err.kind = "InvalidRetentionMode"

\* C4 as stated: SetBucketEncryption with a nil configuration fails with
\* InvalidArgument, without a transport invocation, for every bucket name.
C4_NilConfigInvalidArgument ==
    (op = "SetBucketEncryption" /\ args.config = Nil) =>
        /\ pc = "done"
        /\ calls = 0
        /\ req = NoReq
        /\ result.err.kind = "InvalidArgument"

\* C4 as amended: SetBucketEncryption with a nil configuration fails before any
\* encoding or request construction and never invokes the transport, for every
\* bucket name; the error is InvalidArgument when the bucket name is valid, and
\* the bucket-name validator's error when it is not (the name is checked first).
C4_NilConfigRejected ==
    (op = "SetBucketEncryption" /\ args.config = Nil) =>
        /\ pc = "done"
        /\ calls = 0
        /\ req = NoReq
        /\ IF CheckValidBucketName(args.bucketName) = NoError
           THEN result.err.kind = "InvalidArgument"
           ELSE result.err = CheckValidBucketName(args.bucketName)

C4_Witness ==
    /\ op = "SetBucketEncryption"
    /\ args.config = Nil
    /\ args.bucketName = "bucket"
    /\ pc = "done"
    /\ calls = 0
    /\ result.err.kind = "InvalidArgument"

\* C5: when the transport returns without error, PutObjectRetention returns
\* success exactly when a response with status 200 or 204 was received, and
\* otherwise the service error built from the response and the bucket and
\* object names.
C5_PutRetentionOutcome ==
    (op = "PutObjectRetention" /\ pc = "done" /\ calls = 1 /\ outcome.err = NoError) =>
        /\ outcome.resp # Nil
        /\ result.err = NoError <=> Status \in {200, 204}
        /\ Status \notin {200, 204} =>
              IsServiceError(result.err, args.bucketName, args.objectName)

C5_Witness ==
    /\ op = "PutObjectRetention" /\ Answered
    /\ Status = 204
    /\ result.err = NoError

\* Whether the body of the response decodes, for the GET operation in progress.
BodyDecodes ==
    IF op = "GetObjectRetention" THEN DecodeRetention(Body).err = NoError
    ELSE xmlDecoder(Body).err = NoError

\* C6: GetObjectRetention and GetBucketEncryption return values only after a
\* response with status 200 whose body decoded; every other status gives a
\* service error and nil values, and a decode failure on a 200 body gives an
\* error and nil values.
C6_GetOutcome ==
    (op \in {"GetObjectRetention", "GetBucketEncryption"} /\ pc = "done") =>
        /\ ~NoValues => (Answered /\ Status = 200 /\ BodyDecodes /\ result.err = NoError)
        /\ (Answered /\ Status # 200) =>
              /\ IsServiceError(result.err, args.bucketName, args.objectName)
              /\ result.err.Code = ErrorCode(Body)
              /\ NoValues
        /\ (Answered /\ Status = 200 /\ ~BodyDecodes) =>
              /\ result.err.kind = "DecodeError"
              /\ NoValues
        /\ (Answered /\ Status = 200 /\ BodyDecodes) =>
              /\ result.err = NoError
              /\ ~NoValues

C6_Witness ==
    /\ op = "GetObjectRetention" /\ Answered
    /\ Status = 404
    /\ result.err.kind = "ErrorResponse"
    /\ result.err.Code = "NoSuchObjectLockConfiguration"
    /\ NoValues

\* C7: SetBucketEncryption returns success exactly when the transport returned
\* status 200; every other status, 204 included, is a service error.
C7_SetEncryptionOutcome ==
    (op = "SetBucketEncryption" /\ Answered) =>
        /\ result.err = NoError <=> Status = 200
        /\ Status # 200 => IsServiceError(result.err, args.bucketName, "")

C7_Witness ==
    /\ op = "SetBucketEncryption" /\ Answered
    /\ Status = 204
    /\ result.err.kind = "ErrorResponse"

\* The statuses that are no service error, per operation, as C8 states them.
StatusTableStated(operation) ==
    IF operation \in {"PutObjectRetention", "SetBucketEncryption",
                      "RemoveBucketEncryption"}
    THEN {200, 204} ELSE {200}

\* The same table with SetBucketEncryption succeeding on 200 alone.
StatusTableAmended(operation) ==
    IF operation \in {"PutObjectRetention", "RemoveBucketEncryption"}
    THEN {200, 204} ELSE {200}

\* An answered call follows the table: a status outside it is a service error, a
\* status in it is none, and for the operations that decode nothing it is success.
FollowsTable(table) ==
    /\ Status \notin table => IsServiceError(result.err, args.bucketName, args.objectName)
    /\ Status \in table => result.err.kind # "ErrorResponse"
    /\ (Status \in table /\ op \notin {"GetObjectRetention", "GetBucketEncryption"}) =>
          result.err = NoError

\* C8 as stated: both SET operations succeed on 200 or 204, each GET only on
\* 200, RemoveBucketEncryption on 200 or 204, everything else is a service error.
C8_OneStatusTable == Answered => FollowsTable(StatusTableStated(op))

\* C8 as amended: PutObjectRetention and RemoveBucketEncryption succeed on 200 or
\* 204, SetBucketEncryption and each GET operation only on 200, and every other
\* status of any operation is a service error.
C8_StatusTable == Answered => FollowsTable(StatusTableAmended(op))

C8_Witness ==
    /\ op = "RemoveBucketEncryption" /\ Answered
    /\ Status = 204
    /\ result.err = NoError

\* The configurations the round trip is stated for.
RoundTripModes == {Nil, Ptr(Governance), Ptr(Compliance)}

RoundTripDates == {Nil} \cup {Ptr(t) : t \in 1..MaxInstant}

\* C9: a retention configuration encoded by PutObjectRetention and decoded by
\* GetObjectRetention is reproduced: an unset mode or date comes back unset (nil),
\* a set one comes back equal.
C9_RetentionRoundTrip ==
    (op = "GetObjectRetention" /\ Answered /\ Status = 200) =>
        \A m \in RoundTripModes, d \in RoundTripDates :
            Body = MarshalRetention(newObjectRetention(m, d).val[1]) =>
                /\ result.err = NoError
                /\ result.mode = m
                /\ result.retainUntilDate = d

\* C10: retention requests carry the retention marker, and versionId exactly
\* when a non-empty version id was supplied, with that value; encryption
\* requests carry the encryption marker and never versionId.
C10_QueryParameters ==
    Sent =>
        /\ op \in RetentionOps =>
              /\ QueryValues(req, "retention") = {""}
              /\ QueryValues(req, "versionId")
                    = (IF args.versionID # "" THEN {args.versionID} ELSE {})
        /\ op \in EncryptionOps =>
              /\ QueryValues(req, "encryption") = {""}
              /\ QueryValues(req, "versionId") = {}

C10_Witness ==
    /\ op = "GetObjectRetention" /\ Sent
    /\ args.versionID = "v1"
    /\ <<"versionId", "v1">> \in req.queryValues

\* The operations that send no payload, and those that send one.
BodilessOps == {"GetObjectRetention", "GetBucketEncryption", "RemoveBucketEncryption"}

PayloadOps == {"PutObjectRetention", "SetBucketEncryption"}

\* C11: every request sent without a payload has no body and carries the
\* empty-content SHA-256 as its integrity marker; every request with a payload
\* carries the length and the integrity digest of exactly the encoded body.
C11_BodyAndDigests ==
    Sent =>
        /\ op \in BodilessOps =>
              /\ req.contentBody = Nil
              /\ req.contentLength = 0
              /\ req.contentSHA256Hex = Digest("sha256", <<>>)
        /\ op \in PayloadOps =>
              /\ req.contentBody # Nil
              /\ req.contentLength = Len(req.contentBody[1])
              /\ req.contentMD5Base64 = Digest("md5", req.contentBody[1])

\* The transport returned an error to the operation.
TransportFailed == calls = 1 /\ outcome.err # NoError

\* A step of a call in progress: the transport answers the one invocation, or
\* the operation returns on its answer; neither invokes the transport again.
CallInProgressStep ==
    pc \in {"inflight", "responded"} =>
        /\ calls' = calls
        /\ req' = req
        /\ op' = op
        /\ pc' = (IF pc = "inflight" THEN "responded" ELSE "done")
        /\ pc = "responded" => outcome' = outcome

\* C12: each operation invokes the transport at most once per call, and when the
\* transport returns an error (a cancellation included) the operation returns
\* that same error, with no values: once the transport has answered, the
\* operation only returns, and a new invocation belongs to a new call.
C12_TransportOnceErrorsUnmodified ==
    /\ [](calls \in {0, 1})
    /\ []((pc = "done" /\ TransportFailed) =>
            (result.err = outcome.err /\ result.err.kind # "ErrorResponse" /\ NoValues))
    /\ [][CallInProgressStep]_vars

C12_Witness ==
    /\ op = "GetBucketEncryption"
    /\ pc = "done"
    /\ calls = 1
    /\ outcome.err = [kind |-> "Canceled"]
    /\ result.err = [kind |-> "Canceled"]
    /\ NoValues

====
